---- MODULE Spec2Model ----
(***************************************************************************)
(* Model of the article aggregation scripts of rss-epi:                    *)
(*   scripts/fetch-rss.js          (fetchRSS, lines 1-202 of the source)   *)
(*   the scrape script             (fetchSpecialRSS, lines 203-517)        *)
(* Both load the corpus file, fetch the sources of the registry one at a   *)
(* time, merge/dedup/sort and write the corpus file back.                  *)
(*                                                                         *)
(* Article records keep the fields the merge pipeline reads: id, title,    *)
(* description and pubDate.  link, source, category and author are copied  *)
(* from the item or the registry and never read again; they are left out.  *)
(* A parseable corpus file is taken to hold an array of article records.   *)
(***************************************************************************)
EXTENDS Integers, Sequences, FiniteSets, TLC

(***************************************************************************)
(* Bounds of the model.                                                    *)
(***************************************************************************)
\* clock ticks per day: the model's unit of time, standing for the
\* 1000 * 60 * 60 * 24 milliseconds of filter_latest in a coarser unit
TicksPerDay == 3
\* largest day window the recency filter is called with on its own
MaxWindow == 3
\* most items one feed or one listing page returns
MaxItems == 1
\* most articles in the corpus file before the first run
MaxExisting == 1
\* most articles (existing plus new) handed to the merge on its own
MaxMerged == 3

(***************************************************************************)
(* JavaScript numbers, as far as the scripts use them: an integer or NaN.  *)
(***************************************************************************)
Num(n) == [nan |-> FALSE, v |-> n]
NaN == [nan |-> TRUE, v |-> 0]

\* a - b
JsSub(a, b) == IF a.nan \/ b.nan THEN NaN ELSE Num(a.v - b.v)
\* Math.abs(a)
JsAbs(a) == IF a.nan THEN NaN ELSE Num(IF a.v < 0 THEN 0 - a.v ELSE a.v)
\* Math.floor in place of Math.ceil
JsFloorDiv(a, d) == IF a.nan THEN NaN ELSE Num(a.v \div d)
\* Math.ceil(a / d) for a >= 0, d > 0
JsCeilDiv(a, d) == IF a.nan THEN NaN ELSE Num((a.v + d - 1) \div d)
\* a <= n: false when a is NaN
JsLe(a, n) == (~a.nan) /\ a.v <= n

(***************************************************************************)
(* pubDate strings.  k = "ok": a string that Date parses, to time t;       *)
(* k = "bad": a string Date cannot parse; k = "none": the item carries no  *)
(* date at all (raw items only).                                           *)
(***************************************************************************)
DateStr(t) == [k |-> "ok", t |-> t]
BadDate == [k |-> "bad", t |-> 0]
NoDate == [k |-> "none", t |-> 0]

\* new Date(s) as a time value
DateParse(s) == IF s.k = "ok" THEN Num(s.t) ELSE NaN

\* the recency filter, with the clock reading `now` of its new Date()
filter_latest(article, latestDays, now) ==
    LET date == DateParse(article.pubDate)
        diffTime == JsAbs(JsSub(Num(now), date))
        diffDays == JsCeilDiv(diffTime, TicksPerDay)
    IN  JsLe(diffDays, latestDays)


(***************************************************************************)
(* Program constants.                                                      *)
(***************************************************************************)
\* day window of the feed script's recency filter
LatestDaysRss == 60
\* day window of the scrape script's recency filter
LatestDaysSpecial == 90
\* listing pages generated for the scraped journal: this month and the two before
NumIssueUrls == 3

\* ids whose feed items pass through the recency filter in fetchRSS
FilteredIds == {"MMWR", "EJD", "Epidemiology", "AJPH"}
\* ids handled by fetchSpecialRSS ("ZHLXB" stands for the journal's Chinese id)
SpecialRssIds == {"ZHLXB"}

\* the source registry (rss.json), in registry order
rssConfig ==
    << [id |-> "AJPH", title |-> "Am J Public Health"],
       [id |-> "ZHLXB", title |-> "Zhonghua Liuxingbingxue Zazhi"] >>

SourceIds == {rssConfig[i].id : i \in 1..Len(rssConfig)}

\* position of an id in the collation order localeCompare uses (the order
\* the ids are compared in throughout)
LocaleRank(id) == IF id = "AJPH" THEN 1 ELSE 2

(***************************************************************************)
(* The clock and the dates the model draws from.                           *)
(***************************************************************************)
NowTick == 100 * TicksPerDay
RecentTick == NowTick
OldTick == NowTick - 91 * TicksPerDay

Titles == {"T1", "T2"}
PubDates == {BadDate, DateStr(OldTick), DateStr(RecentTick)}

(***************************************************************************)
(* Dedup by title: filter((article, index, self) =>                        *)
(*                   index === self.findIndex(t => t.title === article.title)) *)
(***************************************************************************)
\* the last index with the title in place of the first
FindLastIndex(self, title) ==
    IF \E i \in 1..Len(self) : self[i].title = title
    THEN CHOOSE i \in 1..Len(self) :
            /\ self[i].title = title
            /\ \A j \in (i + 1)..Len(self) : self[j].title # title
    ELSE 0

\* self.findIndex(t => t.title === title), 1-based; 0 when there is none
FindIndex(self, title) ==
    IF \E i \in 1..Len(self) : self[i].title = title
    THEN CHOOSE i \in 1..Len(self) :
            /\ self[i].title = title
            /\ \A j \in 1..(i - 1) : self[j].title # title
    ELSE 0

RECURSIVE FilterFirstFrom(_, _)
FilterFirstFrom(self, i) ==
    IF i > Len(self) THEN << >>
    ELSE (IF FindIndex(self, self[i].title) = i THEN << self[i] >> ELSE << >>)
            \o FilterFirstFrom(self, i + 1)

\* dedup that compares whole records in place of titles
RECURSIVE FilterRecordsFrom(_, _)
FilterRecordsFrom(self, i) ==
    IF i > Len(self) THEN << >>
    ELSE (IF \A j \in 1..(i - 1) : self[j] # self[i] THEN << self[i] >> ELSE << >>)
            \o FilterRecordsFrom(self, i + 1)

UniqueByRecord(self) == FilterRecordsFrom(self, 1)

UniqueByTitle(self) == FilterFirstFrom(self, 1)

(***************************************************************************)
(* The sort: uniqueArticles.sort((a, b) => ...).                           *)
(***************************************************************************)
Sign(n) == IF n < 0 THEN 0 - 1 ELSE IF n > 0 THEN 1 ELSE 0

\* a.localeCompare(b)
LocaleCompare(a, b) == Num(Sign(LocaleRank(a) - LocaleRank(b)))

\* a comparator that never answers 0 for two articles of one id
CompareFnNoTie(a, b) ==
    IF a.id # b.id
    THEN LocaleCompare(a.id, b.id)
    ELSE IF JsLe(JsSub(DateParse(a.pubDate), DateParse(b.pubDate)), 0 - 1)
         THEN Num(1)
         ELSE Num(0 - 1)

\* the comparator passed to sort
CompareFn(a, b) ==
    IF a.id # b.id
    THEN LocaleCompare(a.id, b.id)
    ELSE JsSub(DateParse(b.pubDate), DateParse(a.pubDate))

\* what sort makes of the comparator's result: NaN counts as +0
SortCompare(a, b) ==
    LET v == CompareFn(a, b) IN IF v.nan THEN 0 ELSE v.v

\* Array.prototype.sort of the Node build the workflow pins, for arrays
\* shorter than 64: the leading run is counted (a strictly descending one
\* is reversed), then the rest is inserted by binary search.
RECURSIVE RunEnd(_, _, _)
RunEnd(a, i, descending) ==
    IF i > Len(a) THEN i - 1
    ELSE LET order == SortCompare(a[i], a[i - 1])
         IN  IF (descending /\ order >= 0) \/ (~descending /\ order < 0)
             THEN i - 1
             ELSE RunEnd(a, i + 1, descending)

RECURSIVE Reverse(_)
Reverse(a) == IF a = << >> THEN << >> ELSE Append(Reverse(Tail(a)), Head(a))

\* <<array with its leading run made ascending, length of that run>>
CountAndMakeRun(a) ==
    LET descending == SortCompare(a[2], a[1]) < 0
        n == RunEnd(a, 3, descending)
    IN  IF descending
        THEN << Reverse(SubSeq(a, 1, n)) \o SubSeq(a, n + 1, Len(a)), n >>
        ELSE << a, n >>

\* number of elements of a[1..start] the pivot goes after
RECURSIVE BinarySearch(_, _, _, _)
BinarySearch(a, pivot, left, right) ==
    IF left >= right THEN left
    ELSE LET mid == left + ((right - left) \div 2)
         IN  IF SortCompare(pivot, a[mid + 1]) < 0
             THEN BinarySearch(a, pivot, left, mid)
             ELSE BinarySearch(a, pivot, mid + 1, right)

\* a[1..start] is sorted; insert a[start+1], a[start+2], ...
RECURSIVE BinaryInsertionSort(_, _)
BinaryInsertionSort(a, start) ==
    IF start >= Len(a) THEN a
    ELSE LET pivot == a[start + 1]
             left == BinarySearch(a, pivot, 0, start)
             moved == SubSeq(a, 1, left) \o << pivot >>
                        \o SubSeq(a, left + 1, start)
                        \o SubSeq(a, start + 2, Len(a))
         IN  BinaryInsertionSort(moved, start + 1)

ArraySort(a) ==
    IF Len(a) < 2 THEN a
    ELSE LET run == CountAndMakeRun(a)
         IN  BinaryInsertionSort(run[1], run[2])

\* merge, dedup and sort: what both scripts write to the corpus file
MergeArticles(existing, new) == existing \o new
MergedCorpus(existing, new) ==
    ArraySort(UniqueByTitle(MergeArticles(existing, new)))


(***************************************************************************)
(* Inputs the model draws from.                                            *)
(***************************************************************************)
SeqsUpTo(S, n) == UNION {[1..k -> S] : k \in 0..n}

\* articles of a corpus file that predates the runs
ExistingArticles ==
    [id : SourceIds, title : Titles, description : {"old"},
     pubDate : {BadDate, DateStr(OldTick)}]

\* items of a parsed feed
FeedItems ==
    {[title |-> t, contentSnippet |-> f[1], description |-> f[2],
      pubDate |-> f[3], isoDate |-> f[4]] :
        t \in Titles,
        f \in {<<"new", "raw", BadDate, DateStr(RecentTick)>>,
               <<"", "new", NoDate, DateStr(RecentTick)>>,
               <<"new", "raw", NoDate, NoDate>>}}

\* rows of a listing page: title text and date text ("" when the cell is empty)
PageRows ==
    [title : Titles \cup {""}, pubDate : {NoDate, DateStr(OldTick)}]
        \cup [title : {"T1"}, pubDate : {BadDate}]

(***************************************************************************)
(* State.                                                                  *)
(***************************************************************************)
VARIABLES
    corpusFile,        \* articles.json: [kind, arts]
    logFile,           \* log.txt: its lines, each [date, kind, detail]
    pc,                \* "idle", "rss", "special", "exited"
    script,            \* the script of the run: "rss", "special"
    existingArticles,  \* the run's existingArticles
    allArticles,       \* the run's allArticles
    errorSources,      \* the run's errorSources (fetchRSS)
    idx,               \* position of the source loop
    urlIdx,            \* position of the URL loop (fetchSpecialRSS)
    attempts,          \* history: what each fetch of the run came to
    fileBefore,        \* history: the corpus file when the run started
    wrote,             \* history: the run reached writeFileSync(articlesPath)
    exitCode,          \* exit code of the run; -1 while it runs
    args,              \* arguments of a function checked on its own
    result             \* its result

runVars == << corpusFile, logFile, pc, script, existingArticles,
              allArticles, errorSources, idx, urlIdx, attempts, fileBefore,
              wrote, exitCode >>
callVars == << args, result >>
vars == << runVars, callVars >>

NoCall == [op |-> "none"]

(***************************************************************************)
(* The corpus store.                                                       *)
(***************************************************************************)
\* the try block that reads articles.json: a missing or unparseable file
\* leaves existingArticles empty
LoadExisting(file) == IF file.kind = "array" THEN file.arts ELSE << >>

ArrayFile(arts) == [kind |-> "array", arts |-> arts]

\* the date the clock shows during the runs, and the one before
Today == "2024-06-02"
Yesterday == "2024-06-01"

(***************************************************************************)
(* The run log.                                                            *)
(***************************************************************************)
LogEntry(date, kind, detail) == [date |-> date, kind |-> kind, detail |-> detail]

\* writeLog(message) on the date `timestamp`
writeLog(lines, timestamp, kind, detail) ==
    LET logEntry == LogEntry(timestamp, kind, detail)
    IN  IF \E i \in 1..Len(lines) : lines[i].date = timestamp
        THEN [i \in 1..Len(lines) |->
                IF lines[i].date = timestamp THEN logEntry ELSE lines[i]]
        ELSE Append(lines, logEntry)

\* `${source.title} (${error.message})`
ErrorSource(title, message) == [title |-> title, reason |-> message]


(***************************************************************************)
(* Per-source processing.                                                  *)
(***************************************************************************)
\* a || b on strings: the empty string is falsy
OrElse(a, b) == IF a # "" THEN a ELSE b

\* the article fetchRSS maps a feed item to
FeedArticle(source, item, now) ==
    [id |-> source.id,
     title |-> OrElse(item.title, ""),
     description |-> OrElse(item.contentSnippet, OrElse(item.description, "")),
     pubDate |-> IF item.pubDate.k # "none" THEN item.pubDate
                 ELSE IF item.isoDate.k # "none" THEN item.isoDate
                 ELSE DateStr(now)]

MapSeq(f(_), a) == [i \in 1..Len(a) |-> f(a[i])]

\* body of fetchRSS's loop for a feed that has items: map, dedup, filter
ProcessFeed(source, items, now) ==
    LET articles == MapSeq(LAMBDA item : FeedArticle(source, item, now), items)
        unique == UniqueByTitle(articles)
    IN  IF source.id \in FilteredIds
        THEN SelectSeq(unique, LAMBDA a : filter_latest(a, LatestDaysRss, now))
        ELSE unique

\* the message fetchRSS records for a source whose fetch came to `outcome`:
\* fetchWithTimeout swallows its error and returns null, a feed without
\* items is no better, and both end in the same throw
FailureMessage(outcome) == "No feed or items found"

\* a failed source ends the loop
AbortAfterFailure(i) == Len(rssConfig) + 1

\* the source loop goes on after a failed source
AfterFailure(i) == i + 1

\* extractData_chinaepi keeps the rows that have a title
ExtractData(rows) == SelectSeq(rows, LAMBDA r : r.title # "")

\* the article fetchWithPuppeteer maps an extracted item to
PageArticle(source, item, now) ==
    [id |-> source.id,
     title |-> OrElse(item.title, ""),
     description |-> "",
     pubDate |-> IF item.pubDate.k # "none" THEN item.pubDate ELSE DateStr(now)]

\* body of fetchSpecialRSS's URL loop for a page that was fetched
ProcessPage(source, rows, now) ==
    LET data == MapSeq(LAMBDA item : PageArticle(source, item, now),
                       ExtractData(rows))
        unique == UniqueByTitle(data)
    IN  IF source.id \in SpecialRssIds
        THEN SelectSeq(unique, LAMBDA a : filter_latest(a, LatestDaysSpecial, now))
        ELSE unique

specialSources == SelectSeq(rssConfig, LAMBDA s : s.id \in SpecialRssIds)

\* number of URLs fetchSpecialRSS generates for a source
UrlCount(source) == IF source.id \in SpecialRssIds THEN NumIssueUrls ELSE 1

Attempt(i, u, outcome, arts) ==
    [src |-> i, url |-> u, outcome |-> outcome, arts |-> arts]

\* abort when some source failed
AnySourceFailed(all, errors) == errors # << >>

\* fetchRSS aborts when nothing was fetched
NoArticlesFetched(all, errors) == all = << >>

(***************************************************************************)
(* Actions.                                                                *)
(***************************************************************************)
\* the scheduler starts a run when none is running
CanStart == pc \in {"idle", "exited"}

Begin(s) ==
    /\ CanStart
    /\ script' = s
    /\ fileBefore' = corpusFile
    /\ attempts' = << >>
    /\ wrote' = FALSE
    /\ allArticles' = << >>
    /\ errorSources' = << >>
    /\ idx' = 1
    /\ urlIdx' = 1
    /\ UNCHANGED << corpusFile, logFile, callVars >>

\* rss.json cannot be read or parsed: process.exit(1) at module load
RegistryUnreadable ==
    /\ \E s \in {"rss", "special"} : Begin(s)
    /\ existingArticles' = << >>
    /\ pc' = "exited"
    /\ exitCode' = 1

StartRSS ==
    /\ Begin("rss")
    /\ existingArticles' = LoadExisting(corpusFile)
    /\ pc' = "rss"
    /\ exitCode' = 0 - 1

\* one turn of fetchRSS's loop: the source yields no feed or no items
RSSFetchFails ==
    /\ pc = "rss" /\ idx <= Len(rssConfig)
    /\ \E outcome \in {"Timeout", "ParseError", "NoItems"} :
        /\ errorSources' = Append(errorSources,
               ErrorSource(rssConfig[idx].title, FailureMessage(outcome)))
        /\ attempts' = Append(attempts, Attempt(idx, 1, outcome, << >>))
    /\ idx' = AfterFailure(idx)
    /\ UNCHANGED << corpusFile, logFile, pc, script,
                    existingArticles, allArticles, urlIdx, fileBefore, wrote,
                    exitCode, callVars >>

\* one turn of fetchRSS's loop: the source yields a feed with items
RSSFetchOk ==
    /\ pc = "rss" /\ idx <= Len(rssConfig)
    /\ \E items \in SeqsUpTo(FeedItems, MaxItems) :
        LET articles == ProcessFeed(rssConfig[idx], items, NowTick)
        IN  /\ allArticles' = allArticles \o articles
            /\ attempts' = Append(attempts, Attempt(idx, 1, "ok", articles))
    /\ idx' = idx + 1
    /\ UNCHANGED << corpusFile, logFile, pc, script,
                    existingArticles, errorSources, urlIdx, fileBefore, wrote,
                    exitCode, callVars >>

\* after the loop, nothing fetched: the throw, the critical log line, exit(1)
RSSNoArticles ==
    /\ pc = "rss" /\ idx > Len(rssConfig)
    /\ NoArticlesFetched(allArticles, errorSources)
    /\ logFile' = writeLog(logFile, Today, "critical",
           << ErrorSource("", "No articles were fetched from any source") >>)
    /\ pc' = "exited"
    /\ exitCode' = 1
    /\ UNCHANGED << corpusFile, script, existingArticles,
                    allArticles, errorSources, idx, urlIdx, attempts,
                    fileBefore, wrote, callVars >>

\* after the loop: merge, dedup, sort, write, log, exit(0)
RSSSave ==
    /\ pc = "rss" /\ idx > Len(rssConfig)
    /\ ~NoArticlesFetched(allArticles, errorSources)
    /\ corpusFile' = ArrayFile(MergedCorpus(existingArticles, allArticles))
    /\ wrote' = TRUE
    /\ logFile' = IF Len(errorSources) > 0
                  THEN writeLog(logFile, Today, "failed", errorSources)
                  ELSE writeLog(logFile, Today, "ok", << >>)
    /\ pc' = "exited"
    /\ exitCode' = 0
    /\ UNCHANGED << script, existingArticles, allArticles,
                    errorSources, idx, urlIdx, attempts, fileBefore, callVars >>

StartSpecial ==
    /\ Begin("special")
    /\ existingArticles' = LoadExisting(corpusFile)
    /\ pc' = "special"
    /\ exitCode' = 0 - 1

\* position of the loops after the URL at (idx, urlIdx)
NextUrl ==
    IF urlIdx < UrlCount(specialSources[idx])
    THEN << idx, urlIdx + 1 >>
    ELSE << idx + 1, 1 >>

\* fetchWithPuppeteer returns null: navigation, waiting or extraction failed
SpecialFetchNull ==
    /\ pc = "special" /\ idx <= Len(specialSources)
    /\ attempts' = Append(attempts, Attempt(idx, urlIdx, "null", << >>))
    /\ idx' = NextUrl[1]
    /\ urlIdx' = NextUrl[2]
    /\ UNCHANGED << corpusFile, logFile, pc, script,
                    existingArticles, allArticles, errorSources, fileBefore,
                    wrote, exitCode, callVars >>

\* fetchWithPuppeteer throws (the browser cannot be launched or closed):
\* the source's catch block, which leaves the source's remaining URLs out
SpecialFetchThrows ==
    /\ pc = "special" /\ idx <= Len(specialSources)
    /\ attempts' = Append(attempts, Attempt(idx, urlIdx, "throws", << >>))
    /\ idx' = idx + 1
    /\ urlIdx' = 1
    /\ UNCHANGED << corpusFile, logFile, pc, script,
                    existingArticles, allArticles, errorSources, fileBefore,
                    wrote, exitCode, callVars >>

\* fetchWithPuppeteer returns the page's items
SpecialFetchOk ==
    /\ pc = "special" /\ idx <= Len(specialSources)
    /\ \E rows \in SeqsUpTo(PageRows, MaxItems) :
        LET articles == ProcessPage(specialSources[idx], rows, NowTick)
        IN  /\ allArticles' = allArticles \o articles
            /\ attempts' = Append(attempts, Attempt(idx, urlIdx, "ok", articles))
    /\ idx' = NextUrl[1]
    /\ urlIdx' = NextUrl[2]
    /\ UNCHANGED << corpusFile, logFile, pc, script,
                    existingArticles, errorSources, fileBefore, wrote,
                    exitCode, callVars >>

\* after the loops: merge, dedup, sort, write; the script returns and the
\* process ends with code 0
SpecialSave ==
    /\ pc = "special" /\ idx > Len(specialSources)
    /\ corpusFile' = ArrayFile(MergedCorpus(existingArticles, allArticles))
    /\ wrote' = TRUE
    /\ pc' = "exited"
    /\ exitCode' = 0
    /\ UNCHANGED << logFile, script, existingArticles,
                    allArticles, errorSources, idx, urlIdx, attempts,
                    fileBefore, callVars >>

InitialFiles ==
    {[kind |-> "missing", arts |-> << >>], [kind |-> "corrupt", arts |-> << >>]}
        \cup {ArrayFile(a) : a \in SeqsUpTo(ExistingArticles, MaxExisting)}

\* the log before the first run: a line of an earlier day
InitialLogs == {<< LogEntry(Yesterday, "ok", << >>) >>}

Init ==
    /\ corpusFile \in InitialFiles
    /\ logFile \in InitialLogs
    /\ pc = "idle"
    /\ script = "none"
    /\ existingArticles = << >>
    /\ allArticles = << >>
    /\ errorSources = << >>
    /\ idx = 1
    /\ urlIdx = 1
    /\ attempts = << >>
    /\ fileBefore = corpusFile
    /\ wrote = FALSE
    /\ exitCode = 0 - 1
    /\ args = NoCall
    /\ result = NoCall

Next ==
    \/ RegistryUnreadable
    \/ StartRSS
    \/ RSSFetchFails
    \/ RSSFetchOk
    \/ RSSNoArticles
    \/ RSSSave
    \/ StartSpecial
    \/ SpecialFetchNull
    \/ SpecialFetchThrows
    \/ SpecialFetchOk
    \/ SpecialSave

Spec == Init /\ [][Next]_vars


(***************************************************************************)
(* filter_latest on its own.                                               *)
(***************************************************************************)
\* no run is going on
RunQuiet ==
    /\ corpusFile = [kind |-> "missing", arts |-> << >>]
    /\ logFile = << >>
    /\ pc = "idle"
    /\ script = "none"
    /\ existingArticles = << >>
    /\ allArticles = << >>
    /\ errorSources = << >>
    /\ idx = 1
    /\ urlIdx = 1
    /\ attempts = << >>
    /\ fileBefore = corpusFile
    /\ wrote = FALSE
    /\ exitCode = 0 - 1

\* the clock reading of the calls: late enough for dates MaxWindow + 2 days back
FilterNow == (MaxWindow + 2) * TicksPerDay

FilterInit ==
    /\ RunQuiet
    /\ \E d \in {BadDate} \cup {DateStr(t) : t \in 0..(2 * FilterNow)},
          n \in 0..MaxWindow :
        args = [op |-> "filter_latest", pubDate |-> d, latestDays |-> n,
                now |-> FilterNow]
    /\ result = NoCall

CallFilter ==
    /\ args.op = "filter_latest" /\ result = NoCall
    /\ result' = [op |-> "filter_latest",
                  keep |-> filter_latest([pubDate |-> args.pubDate],
                                         args.latestDays, args.now)]
    /\ UNCHANGED << args, runVars >>

FilterNext == CallFilter

SpecFilter == FilterInit /\ [][FilterNext]_vars

(***************************************************************************)
(* The merge, dedup and sort steps on their own, applied twice.            *)
(***************************************************************************)
\* articles the merge is fed: three titles, one of them under both ids
MergeInputs(description) ==
    {[id |-> it[1], title |-> it[2], description |-> description, pubDate |-> d] :
        it \in {<<"AJPH", "T1">>, <<"AJPH", "T2">>, <<"AJPH", "T3">>,
                <<"ZHLXB", "T1">>},
        d \in PubDates}

MergeInit ==
    /\ RunQuiet
    /\ \E k \in 0..MaxMerged : \E j \in 0..(MaxMerged - k) :
        \E e \in [1..k -> MergeInputs("old")], n \in [1..j -> MergeInputs("new")] :
            args = [op |-> "merge", existing |-> e, new |-> n]
    /\ result = NoCall

\* a run's merge of the batch into the corpus
MergeOnce ==
    /\ args.op = "merge" /\ result = NoCall
    /\ result' = [op |-> "merge", times |-> 1,
                  once |-> MergedCorpus(args.existing, args.new),
                  twice |-> << >>]
    /\ UNCHANGED << args, runVars >>

\* the next run's merge of the same batch into what the first wrote
MergeAgain ==
    /\ result # NoCall /\ result.op = "merge" /\ result.times = 1
    /\ result' = [result EXCEPT !.times = 2,
                                !.twice = MergedCorpus(result.once, args.new)]
    /\ UNCHANGED << args, runVars >>

MergeNext == MergeOnce \/ MergeAgain

SpecMerge == MergeInit /\ [][MergeNext]_vars

(***************************************************************************)
(* fetchRSS over the same feeds with the registry in two orders.           *)
(***************************************************************************)
\* most articles in the corpus file the two runs start from
MaxOrderExisting == 2
\* most items of a feed in the two runs
MaxOrderItems == 1

\* allArticles of a fetchRSS run over `config` when every source delivers
\* the feed items feeds[source.id]
RECURSIVE FetchAll(_, _, _)
FetchAll(config, feeds, i) ==
    IF i > Len(config) THEN << >>
    ELSE ProcessFeed(config[i], feeds[config[i].id], NowTick)
            \o FetchAll(config, feeds, i + 1)

\* what the run leaves in the corpus file
RunRSS(config, file, feeds) ==
    LET all == FetchAll(config, feeds, 1)
    IN  IF NoArticlesFetched(all, << >>)
        THEN file
        ELSE ArrayFile(MergedCorpus(LoadExisting(file), all))

OrderExisting ==
    [id : SourceIds, title : {"E1", "E2"}, description : {"old"},
     pubDate : PubDates]

OrderItems ==
    {[title |-> t, contentSnippet |-> "new", description |-> "raw",
      pubDate |-> p, isoDate |-> NoDate] :
        t \in Titles, p \in PubDates}

OrderInit ==
    /\ RunQuiet
    /\ \E e \in SeqsUpTo(OrderExisting, MaxOrderExisting),
          f \in [SourceIds -> SeqsUpTo(OrderItems, MaxOrderItems)] :
        args = [op |-> "order", file |-> ArrayFile(e), feeds |-> f]
    /\ result = NoCall

RunBothOrders ==
    /\ args.op = "order" /\ result = NoCall
    /\ result' = [op |-> "order",
                  first |-> RunRSS(rssConfig, args.file, args.feeds),
                  second |-> RunRSS(Reverse(rssConfig), args.file, args.feeds)]
    /\ UNCHANGED << args, runVars >>

OrderNext == RunBothOrders

SpecOrder == OrderInit /\ [][OrderNext]_vars


(***************************************************************************)
(* Properties.                                                             *)
(***************************************************************************)
Range(a) == {a[i] : i \in 1..Len(a)}
TitlesOf(a) == {a[i].title : i \in 1..Len(a)}

\* the articles the finished run merged: existing ++ new
Merged == existingArticles \o allArticles

\* a's first occurrences: the elements no earlier element shares a title with
FirstOccurrences(a) ==
    {a[i] : i \in {k \in 1..Len(a) : \A j \in 1..(k - 1) : a[j].title # a[k].title}}

\* C1: every corpus a run of fetchRSS or fetchSpecialRSS writes holds no two
\* articles with the same title, whatever the corpus file was before.
NoDuplicateTitles ==
    wrote =>
        \A i, j \in 1..Len(corpusFile.arts) :
            corpusFile.arts[i].title = corpusFile.arts[j].title => i = j

\* a run wrote a corpus of two articles after fetching a title the corpus
\* file already held
NoDuplicateTitlesWitness ==
    /\ wrote
    /\ Len(corpusFile.arts) = 2
    /\ TitlesOf(existingArticles) \cap TitlesOf(allArticles) # {}

\* C2: the written corpus holds, for each title, exactly the first article
\* with that title in existing ++ new; an existing article is kept over a
\* fetched one with the same title, with the existing description.
FirstOccurrenceWins ==
    wrote =>
        /\ Range(corpusFile.arts) = FirstOccurrences(Merged)
        /\ Len(corpusFile.arts) = Cardinality(TitlesOf(Merged))
        /\ \A e \in FirstOccurrences(existingArticles) :
               e \in Range(corpusFile.arts)
        /\ \A c \in Range(corpusFile.arts) :
               c.title \in TitlesOf(existingArticles)
                   => c \in FirstOccurrences(existingArticles)

\* a run fetched a title the corpus file held with another description, and
\* wrote the corpus
FirstOccurrenceWinsWitness ==
    /\ wrote
    /\ \E e \in Range(existingArticles), n \in Range(allArticles) :
        /\ e.title = n.title
        /\ e.description # n.description
        /\ e \in Range(corpusFile.arts)

\* p >= q on the dates two pubDate strings parse to: false when either is
\* not a date
DateGE(p, q) == p.k = "ok" /\ q.k = "ok" /\ p.t >= q.t

\* C3: every corpus a run writes is sorted: ids ascending over adjacent
\* pairs, and within equal ids the first pubDate is later than or equal to
\* the second.
SortedCorpus ==
    wrote =>
        \A i \in 1..(Len(corpusFile.arts) - 1) :
            LET a == corpusFile.arts[i]
                b == corpusFile.arts[i + 1]
            IN  /\ LocaleRank(a.id) <= LocaleRank(b.id)
                /\ a.id = b.id => DateGE(a.pubDate, b.pubDate)

\* C4: merging is idempotent: merge, dedup and sort applied to their own
\* output with the same batch of new articles give that output again.
MergeIdempotent ==
    (result # NoCall /\ result.op = "merge" /\ result.times = 2)
        => result.twice = result.once

\* the batch brought a new title and a title the corpus held, and the merge
\* ran twice over two or more articles
MergeIdempotentWitness ==
    /\ result # NoCall /\ result.op = "merge" /\ result.times = 2
    /\ Len(result.once) >= 2
    /\ TitlesOf(args.new) \cap TitlesOf(args.existing) # {}
    /\ TitlesOf(args.new) \ TitlesOf(args.existing) # {}

RECURSIVE FlattenArts(_)
FlattenArts(as) ==
    IF as = << >> THEN << >> ELSE Head(as).arts \o FlattenArts(Tail(as))

\* the sources the run has attempted, a source once however many of its
\* URLs were fetched
RECURSIVE SourcesOf(_)
SourcesOf(as) ==
    IF as = << >> THEN << >>
    ELSE LET rest == SourcesOf(Tail(as))
         IN  IF rest # << >> /\ Head(rest) = Head(as).src
             THEN rest
             ELSE << Head(as).src >> \o rest

LoopDone ==
    \/ pc = "rss" /\ idx > Len(rssConfig)
    \/ pc = "special" /\ idx > Len(specialSources)
    \/ pc = "exited" /\ attempts # << >>

\* C5: a failing source never blocks the rest: every source is attempted
\* once, in registry order, whatever came of the sources before it, and the
\* articles of every source that succeeded are in the batch that is merged.
FailureIsolation ==
    /\ pc \in {"rss", "special"} =>
        SourcesOf(attempts) = [i \in 1..(idx - 1) |-> i]
            \/ (pc = "special" /\ urlIdx > 1
                    /\ SourcesOf(attempts) = [i \in 1..idx |-> i])
    /\ LoopDone =>
        /\ SourcesOf(attempts) =
              [i \in 1..(IF script = "rss" THEN Len(rssConfig)
                         ELSE Len(specialSources)) |-> i]
        /\ allArticles = FlattenArts(attempts)
    /\ (LoopDone /\ wrote) =>
        \A i \in 1..Len(attempts) :
            TitlesOf(attempts[i].arts) \subseteq TitlesOf(corpusFile.arts)

\* the first source failed, the second delivered an article, and the run
\* wrote the corpus
FailureIsolationWitness ==
    /\ pc = "exited" /\ script = "rss" /\ wrote
    /\ Len(attempts) = Len(rssConfig)
    /\ attempts[1].outcome = "Timeout"
    /\ attempts[2].outcome = "ok" /\ attempts[2].arts # << >>

\* the reason a failed fetch has: the message of the error it ended with
ReasonOf(outcome) ==
    IF outcome = "Timeout" THEN "Timeout" ELSE "No feed or items found"

\* C6: when some source fails and another delivers articles, the run exits
\* 0, the corpus holds the delivered articles' titles, and today's log line
\* names each failed source with the reason it failed: "Timeout" for a
\* fetch that lost the race against the timer.
PartialFailureLogged ==
    (/\ pc = "exited" /\ script = "rss"
     /\ \E i \in 1..Len(attempts) : attempts[i].outcome # "ok"
     /\ \E i \in 1..Len(attempts) : attempts[i].arts # << >>)
        => /\ exitCode = 0
           /\ TitlesOf(allArticles) \subseteq TitlesOf(corpusFile.arts)
           /\ \E l \in 1..Len(logFile) :
                /\ logFile[l].date = Today
                /\ \A i \in 1..Len(attempts) :
                     attempts[i].outcome \in {"Timeout", "NoItems"} =>
                        ErrorSource(rssConfig[attempts[i].src].title,
                                    ReasonOf(attempts[i].outcome))
                            \in Range(logFile[l].detail)

\* C7: when every source fails in a run of fetchRSS or fetchSpecialRSS, the
\* process exits non-zero and the corpus file is left as it was: not
\* written at all.
AllFailedLeavesCorpus ==
    (/\ pc = "exited" /\ attempts # << >>
     /\ \A i \in 1..Len(attempts) : attempts[i].outcome # "ok")
        => /\ exitCode # 0
           /\ ~wrote
           /\ corpusFile = fileBefore

Distance(a, b) == IF a >= b THEN a - b ELSE b - a

RecencyFilter ==
    (result # NoCall /\ result.op = "filter_latest")
        => LET n == args.latestDays
               p == args.pubDate
           IN  /\ result.keep <=>
                    (p.k = "ok"
                     /\ Distance(args.now, p.t) <= n * TicksPerDay)
               /\ (p.k = "ok" /\ p.t = args.now - n * TicksPerDay)
                    => result.keep
               /\ (p.k = "ok" /\ p.t = args.now - (n + 1) * TicksPerDay)
                    => ~result.keep
               /\ p.k # "ok" => ~result.keep

\* the filter kept an article dated exactly N days back, N > 0
RecencyFilterWitness ==
    /\ result # NoCall /\ result.op = "filter_latest"
    /\ args.latestDays > 0
    /\ args.pubDate = DateStr(args.now - args.latestDays * TicksPerDay)
    /\ result.keep

\* C10: the written corpus does not depend on the order of the sources in
\* the registry.  Stated for the runs in which no title comes from two
\* sources, where the dedup keeps the same articles in either order.
OrderIndependent ==
    (/\ result # NoCall /\ result.op = "order"
     /\ \A s, t \in SourceIds :
            s # t => TitlesOf(args.feeds[s]) \cap TitlesOf(args.feeds[t]) = {})
        => result.first = result.second

====
